---- MODULE Spec2Model ----
(***************************************************************************)
(* Model of dmzj_txt2pdf.py: the concurrent TXT -> PDF conversion stage,   *)
(* the merge-by-folder-key stage and the clean-up stage of                 *)
(* convert_dmzj_txts_to_pdf, over a small file system.                     *)
(*                                                                         *)
(* Strings are sequences of one-character strings, so that split/join and  *)
(* string comparison are computed and not assumed.  A file-name extension  *)
(* is one token (".txt", ".pdf").  A path is a sequence of names; absolute *)
(* paths start at the file-system root << >>.                              *)
(***************************************************************************)
EXTENDS Integers, Sequences, FiniteSets, TLC

VARIABLES
    pc,               \* position of the main thread in convert_dmzj_txts_to_pdf
    group_level,      \* argument group_level
    workers,          \* argument workers (0 stands for None)
    keep_fragments,   \* argument keep_fragments
    txt_files,        \* list built from root.rglob("*.txt")
    fut_state,        \* txt -> state of the future submitted for it
    yielded,          \* futures already handed out by as_completed
    frag_pdf_of_txt,  \* dict in insertion order: sequence of <<txt, pdf>>
    created,          \* list created
    warned,           \* the [WARN] lines written to stderr (txt per line)
    groups,           \* groupby(sorted(frag_pdf_of_txt, key=...), key=...), once evaluated
    merged_paths,     \* list merged_paths
    merged,           \* per finished merge-loop iteration: what it appended and wrote
    files,            \* file system: path of a regular file -> content
    dirs,             \* file system: set of directories
    parents,          \* _prune: the set parents
    todo,             \* _prune: directories a loop has still to visit
    pi,               \* _prune: number of paths the unlink loop has handled
    rmlog,            \* _prune: the rmdir calls made so far, with their outcome
    err,              \* exception that left convert_dmzj_txts_to_pdf, or "none"
    result,           \* the returned list
    attempts,         \* txt -> number of times a pool thread took its work item
    run,              \* number of the call of convert_dmzj_txts_to_pdf under way
    prev,             \* what the previous call left: its futures and the files
    wd,               \* _wrap_draw: its arguments, locals and the canvas
    kn,               \* key function study: the directory names given
    kk                \* key function study: depth -> grouping computed

vars == <<pc, group_level, workers, keep_fragments, txt_files, fut_state, yielded,
          frag_pdf_of_txt, created, warned, groups, merged_paths, merged, files, dirs,
          parents, todo, pi, rmlog, err, result, attempts, run, prev, wd, kn, kk>>

(***************************************************************************)
(* Bounds of the model.                                                    *)
(***************************************************************************)
MaxFrags == 3        \* fragments found under the input root
MaxWorkers == 2      \* largest explicit worker width
PagesPerDoc == 2     \* pages of a per-fragment document
MaxNameLen == 2      \* longest directory name of the key function study

(***************************************************************************)
(* Host and defaults.                                                      *)
(***************************************************************************)
CpuCount == 1
WorkerCap == 32

Range(seq) == {seq[i] : i \in 1..Len(seq)}

Min(a, b) == IF a <= b THEN a ELSE b
Max(a, b) == IF a >= b THEN a ELSE b

DEFAULT_WORKERS == Min(WorkerCap, CpuCount * 4)

(***************************************************************************)
(* Strings.                                                                *)
(***************************************************************************)
\* code point of a character
Ord(ch) ==
    CASE ch = "_" -> 95
      [] ch = "a" -> 97
      [] ch = "b" -> 98
      [] ch = "c" -> 99
      [] ch = "d" -> 100
      [] ch = "n" -> 110
      [] ch = "o" -> 111
      [] ch = "p" -> 112
      [] ch = "r" -> 114
      [] ch = "x" -> 120
      [] ch = "y" -> 121
      [] OTHER -> 46

\* s < t for Python strings: the first differing code point decides, a proper
\* prefix is smaller
RECURSIVE StrLess(_, _)
StrLess(s, t) ==
    IF t = << >> THEN FALSE
    ELSE IF s = << >> THEN TRUE
    ELSE IF Ord(Head(s)) # Ord(Head(t)) THEN Ord(Head(s)) < Ord(Head(t))
    ELSE StrLess(Tail(s), Tail(t))

\* seq[:n] of Python
SliceTo(seq, n) ==
    IF n >= 0 THEN SubSeq(seq, 1, Min(n, Len(seq)))
    ELSE SubSeq(seq, 1, Max(0, Len(seq) + n))

\* s.split("_")
RECURSIVE SplitUnderscore(_)
SplitUnderscore(s) ==
    IF \A i \in 1..Len(s) : s[i] # "_" THEN <<s>>
    ELSE LET i == CHOOSE j \in 1..Len(s) :
                     s[j] = "_" /\ \A k \in 1..(j - 1) : s[k] # "_"
         IN <<SubSeq(s, 1, i - 1)>> \o SplitUnderscore(SubSeq(s, i + 1, Len(s)))

\* "".join(segs): the join with the separator forgotten
RECURSIVE JoinNoSeparator(_)
JoinNoSeparator(segs) ==
    IF segs = << >> THEN << >>
    ELSE Head(segs) \o JoinNoSeparator(Tail(segs))

\* "_".join(segs)
RECURSIVE JoinUnderscore(_)
JoinUnderscore(segs) ==
    IF segs = << >> THEN << >>
    ELSE IF Len(segs) = 1 THEN segs[1]
    ELSE segs[1] \o <<"_">> \o JoinUnderscore(Tail(segs))

\* "_".join(name.split("_")[:depth]) for a directory name
KeyOfName(name, depth) == JoinUnderscore(SliceTo(SplitUnderscore(name), depth))

(***************************************************************************)
(* Paths.                                                                  *)
(***************************************************************************)
Parent(p) == SubSeq(p, 1, Len(p) - 1)

\* p.parents: every proper ancestor, up to the file-system root
Ancestors(p) == {SubSeq(p, 1, n) : n \in 0..(Len(p) - 1)}

\* len(d.parts) of an absolute path: the root "/" is a part
NumParts(d) == Len(d) + 1

\* p.with_suffix(".pdf")
WithSuffixPdf(p) ==
    LET name == p[Len(p)]
    IN  SubSeq(p, 1, Len(p) - 1) \o <<SubSeq(name, 1, Len(name) - 1) \o <<".pdf">>>>

\* the input root (only its name is read) and the output root
RootName == <<"b", "_", "r">>
OutDir == <<<<"p">>, <<"o">>>>

\* out / txt.relative_to(root).with_suffix(".pdf"); a txt is kept relative to root
PdfOf(txt) == OutDir \o WithSuffixPdf(txt)

\* p.parent.name of root / txt
ParentName(txt) == IF Len(txt) >= 2 THEN txt[Len(txt) - 1] ELSE RootName

_folder_key(txt, depth) == KeyOfName(ParentName(txt), depth)

\* out / f"{key}.pdf"
VolPdf(key) == OutDir \o <<key \o <<".pdf">>>>

(***************************************************************************)
(* The fragments found under the input root.                               *)
(***************************************************************************)
A_X == <<"a", "_", "x">>
A_Y == <<"a", "_", "y">>

\* every *.txt a run may find, relative to the input root
\* in the order in which the scan of the input root meets them
ScanOrder ==
    << <<<<"a", ".txt">>>>,
       <<A_X, A_Y, <<"c", ".txt">>>>,
       <<A_X, <<"c", ".txt">>>>,
       <<A_Y, <<"c", ".txt">>>>,
       <<<<"b", ".txt">>>> >>

Universe == {ScanOrder[i] : i \in 1..Len(ScanOrder)}

\* [p for p in root.rglob("*.txt")] when the files of S are those present
RECURSIVE Listing(_, _)
Listing(S, i) ==
    IF i > Len(ScanOrder) THEN << >>
    ELSE (IF ScanOrder[i] \in S THEN <<ScanOrder[i]>> ELSE << >>) \o Listing(S, i + 1)

(***************************************************************************)
(* Documents.                                                              *)
(***************************************************************************)
\* the document _txt2pdf_one saves for txt: its pages, in order
DocOf(txt) == [kind |-> "doc", pages |-> [i \in 1..PagesPerDoc |-> <<txt, i>>]]

\* what is left of a file whose write was cut short
PartialDoc == [kind |-> "partial", pages |-> << >>]

(***************************************************************************)
(* File system.                                                            *)
(***************************************************************************)
HasChild(fs, ds, d) ==
    \/ \E f \in DOMAIN fs : Parent(f) = d
    \/ \E e \in ds : e # << >> /\ Parent(e) = d

\* pdf.parent.mkdir(parents=True, exist_ok=True)
MkdirParents(ds, d) == ds \cup Ancestors(d) \cup {d}

\* d.rmdir() succeeds: d exists, is empty, and is not the file-system root
RmdirSucceeds(fs, ds, d) == d \in ds /\ d # << >> /\ ~HasChild(fs, ds, d)

WriteFile(fs, p, content) == [q \in (DOMAIN fs) \cup {p} |-> IF q = p THEN content ELSE fs[q]]

RemoveFile(fs, p) == [q \in (DOMAIN fs) \ {p} |-> fs[q]]

(***************************************************************************)
(* Dicts with insertion order: sequences of <<key, value>>.                *)
(***************************************************************************)
DictKeys(d) == [i \in 1..Len(d) |-> d[i][1]]
DictValues(d) == [i \in 1..Len(d) |-> d[i][2]]
DictHas(d, k) == \E i \in 1..Len(d) : d[i][1] = k
DictGet(d, k) == d[CHOOSE i \in 1..Len(d) : d[i][1] = k][2]
DictSet(d, k, v) ==
    IF DictHas(d, k) THEN [i \in 1..Len(d) |-> IF d[i][1] = k THEN <<k, v>> ELSE d[i]]
    ELSE Append(d, <<k, v>>)

(***************************************************************************)
(* sorted(..., key=) and itertools.groupby(..., key=).                     *)
(***************************************************************************)
\* put t behind every element whose key is not greater than its own
InsertByKey(seq, t, depth) ==
    LET k == _folder_key(t, depth)
        n == Cardinality({i \in 1..Len(seq) : ~StrLess(k, _folder_key(seq[i], depth))})
    IN  SubSeq(seq, 1, n) \o <<t>> \o SubSeq(seq, n + 1, Len(seq))

\* the sort left out: groupby is given the dict order
Unsorted(seq, depth) == seq

\* sorted(seq, key=lambda p: _folder_key(p, depth)): stable, by key only
RECURSIVE SortedByKey(_, _)
SortedByKey(seq, depth) ==
    IF seq = << >> THEN << >>
    ELSE InsertByKey(SortedByKey(SubSeq(seq, 1, Len(seq) - 1), depth),
                     seq[Len(seq)], depth)

\* groupby(seq, key=lambda p: _folder_key(p, depth)): runs of equal keys
RECURSIVE GroupBy(_, _)
GroupBy(seq, depth) ==
    IF seq = << >> THEN << >>
    ELSE LET k == _folder_key(seq[1], depth)
             n == CHOOSE m \in 1..Len(seq) :
                      /\ \A i \in 1..m : _folder_key(seq[i], depth) = k
                      /\ (m < Len(seq) => _folder_key(seq[m + 1], depth) # k)
         IN  <<[key |-> k, members |-> SubSeq(seq, 1, n)]>>
                 \o GroupBy(SubSeq(seq, n + 1, Len(seq)), depth)

\* the groups the merge loop walks over, in order
MergeGroups(keys, depth) == GroupBy(SortedByKey(keys, depth), depth)

(***************************************************************************)
(* convert_dmzj_txts_to_pdf: arguments and start.                          *)
(***************************************************************************)
GroupLevels == {-1, 0, 1, 2, 3}

NoFiles == [q \in {} |-> PartialDoc]
NoFutures == [t \in {} |-> "pending"]
NoAttempts == [t \in {} |-> 0]
NoPrev == [fut |-> NoFutures, files |-> NoFiles]
NoWrap == [pc |-> "off"]

Finished == {"ok", "read_error", "write_error"}

Init ==
    /\ pc = "start"
    /\ group_level \in GroupLevels
    /\ workers \in 0..MaxWorkers
    /\ keep_fragments \in BOOLEAN
    /\ txt_files \in {Listing(S, 1) :
                        S \in {T \in SUBSET Universe : Cardinality(T) <= MaxFrags}}
    /\ files = NoFiles
    /\ dirs = {<< >>}
    /\ fut_state = NoFutures
    /\ yielded = {}
    /\ frag_pdf_of_txt = << >>
    /\ created = << >>
    /\ warned = << >>
    /\ groups = << >>
    /\ merged_paths = << >>
    /\ merged = << >>
    /\ parents = {}
    /\ todo = {}
    /\ pi = 0
    /\ rmlog = << >>
    /\ err = "none"
    /\ result = << >>
    /\ attempts = NoAttempts
    /\ run = 1
    /\ prev = NoPrev
    /\ wd = NoWrap
    /\ kn = << >>
    /\ kk = << >>

\* max_workers=workers or DEFAULT_WORKERS
PoolWidth == IF workers = 0 THEN DEFAULT_WORKERS ELSE workers

Running == {t \in DOMAIN fut_state : fut_state[t] = "running"}

\* out.mkdir(parents=True, exist_ok=True); the pool is created
Begin ==
    /\ pc = "start"
    /\ dirs' = MkdirParents(dirs, OutDir)
    /\ pc' = "submit"
    /\ UNCHANGED <<group_level, workers, keep_fragments, txt_files, fut_state, yielded,
                   frag_pdf_of_txt, created, warned, merged_paths, merged, files,
                   parents, todo, pi, rmlog, err, result, kn, kk, groups, attempts,
                   run, prev, wd>>

(***************************************************************************)
(* 1. multithreaded TXT -> PDF.                                            *)
(***************************************************************************)
\* the dict comprehension: pool.submit for every txt, in txt_files order;
\* as_completed(fut_to_txt) is entered
Submit ==
    /\ pc = "submit"
    /\ fut_state' = [t \in Range(txt_files) |-> "pending"]
    /\ attempts' = [t \in Range(txt_files) |-> 0]
    /\ pc' = "collect"
    /\ UNCHANGED <<group_level, workers, keep_fragments, txt_files, yielded,
                   frag_pdf_of_txt, created, warned, merged_paths, merged, files,
                   dirs, parents, todo, pi, rmlog, err, result, kn, kk, groups,
                   run, prev, wd>>

\* a pool that starts a thread for every work item, whatever max_workers is
WorkerAlwaysFree == TRUE

\* a pool thread is free to take a work item
WorkerFree == Cardinality(Running) < PoolWidth

\* a pool thread takes the oldest queued work item
Start(txt) ==
    /\ txt \in DOMAIN fut_state
    /\ fut_state[txt] = "pending"
    /\ \A i, j \in 1..Len(txt_files) :
           (txt_files[j] = txt /\ i < j)
               => fut_state[txt_files[i]] # "pending"
    /\ WorkerFree
    /\ fut_state' = [fut_state EXCEPT ![txt] = "running"]
    /\ attempts' = [attempts EXCEPT ![txt] = @ + 1]
    /\ UNCHANGED <<pc, group_level, workers, keep_fragments, txt_files, yielded,
                   frag_pdf_of_txt, created, warned, merged_paths, merged, files,
                   dirs, parents, todo, pi, rmlog, err, result, kn, kk, groups,
                   run, prev, wd>>

\* _txt2pdf_one(txt, pdf) ends: it returned pdf, or read_bytes raised, or the
\* canvas could not be saved after the directories were made
Finish(txt, outcome) ==
    /\ txt \in DOMAIN fut_state
    /\ fut_state[txt] = "running"
    /\ fut_state' = [fut_state EXCEPT ![txt] = outcome]
    /\ dirs' = IF outcome = "read_error" THEN dirs
               ELSE MkdirParents(dirs, Parent(PdfOf(txt)))
    /\ files' = IF outcome = "ok" THEN WriteFile(files, PdfOf(txt), DocOf(txt))
                ELSE files
    /\ UNCHANGED <<pc, group_level, workers, keep_fragments, txt_files, yielded,
                   frag_pdf_of_txt, created, warned, merged_paths, merged, parents,
                   todo, pi, rmlog, err, result, kn, kk, groups, attempts, run,
                   prev, wd>>

\* the body of the as_completed loop for a failed future, were the exception of
\* fut.result() not caught: it leaves the function
CollectUncaught(txt) ==
    /\ pc = "collect"
    /\ txt \in (DOMAIN fut_state) \ yielded
    /\ fut_state[txt] \in Finished
    /\ yielded' = yielded \cup {txt}
    /\ IF fut_state[txt] = "ok"
       THEN /\ frag_pdf_of_txt' = DictSet(frag_pdf_of_txt, txt, PdfOf(txt))
            /\ created' = Append(created, PdfOf(txt))
            /\ UNCHANGED <<pc, err>>
       ELSE /\ pc' = "raised"
            /\ err' = "convert"
            /\ UNCHANGED <<frag_pdf_of_txt, created>>
    /\ UNCHANGED <<group_level, workers, keep_fragments, txt_files, fut_state, warned,
                   merged_paths, merged, files, dirs, parents, todo, pi, rmlog,
                   result, kn, kk, groups, attempts, run, prev, wd>>

\* the body of the as_completed loop for a failed future, were the fragment
\* entered in the dict all the same
CollectRecordsFailure(txt) ==
    /\ pc = "collect"
    /\ txt \in (DOMAIN fut_state) \ yielded
    /\ fut_state[txt] \in Finished
    /\ yielded' = yielded \cup {txt}
    /\ frag_pdf_of_txt' = DictSet(frag_pdf_of_txt, txt, PdfOf(txt))
    /\ created' = Append(created, PdfOf(txt))
    /\ warned' = IF fut_state[txt] = "ok" THEN warned ELSE Append(warned, txt)
    /\ UNCHANGED <<pc, group_level, workers, keep_fragments, txt_files, fut_state,
                   merged_paths, merged, files, dirs, parents, todo, pi, rmlog,
                   err, result, kn, kk, groups, attempts, run, prev, wd>>

\* as_completed yields a finished future; the loop body records its result or
\* prints the warning
\* as_completed that hands over only the futures that returned: one that
\* raised is never yielded
CollectSkipsFailed(txt) ==
    /\ pc = "collect"
    /\ txt \in (DOMAIN fut_state) \ yielded
    /\ fut_state[txt] = "ok"
    /\ yielded' = yielded \cup {txt}
    /\ frag_pdf_of_txt' = DictSet(frag_pdf_of_txt, txt, PdfOf(txt))
    /\ created' = Append(created, PdfOf(txt))
    /\ UNCHANGED <<pc, group_level, workers, keep_fragments, txt_files, fut_state,
                   merged_paths, merged, files, dirs, parents, todo, pi, rmlog,
                   err, result, kn, kk, groups, attempts, run, prev, wd, warned>>

Collect(txt) ==
    /\ pc = "collect"
    /\ txt \in (DOMAIN fut_state) \ yielded
    /\ fut_state[txt] \in Finished
    /\ yielded' = yielded \cup {txt}
    /\ IF fut_state[txt] = "ok"
       THEN /\ frag_pdf_of_txt' = DictSet(frag_pdf_of_txt, txt, PdfOf(txt))
            /\ created' = Append(created, PdfOf(txt))
            /\ UNCHANGED warned
       ELSE /\ warned' = Append(warned, txt)
            /\ UNCHANGED <<frag_pdf_of_txt, created>>
    /\ UNCHANGED <<pc, group_level, workers, keep_fragments, txt_files, fut_state,
                   merged_paths, merged, files, dirs, parents, todo, pi, rmlog,
                   err, result, kn, kk, groups, attempts, run, prev, wd>>

\* if group_level >= 1: the upper end of the range check forgotten
MergeRequestedNoUpper == group_level >= 1

\* if 1 <= group_level <= 2
MergeRequested == 1 <= group_level /\ group_level <= 2

\* the loop left after the first future, the pool not joined
StageOverAfterFirst == yielded # {} \/ txt_files = << >>

\* as_completed is exhausted and the with block has joined every worker
ConversionStageOver ==
    /\ yielded = Range(txt_files)
    /\ \A t \in DOMAIN fut_state : fut_state[t] \in Finished

\* the with block is left; the merge loop, if asked for, evaluates
\* groupby(sorted(frag_pdf_of_txt, key=...), key=...)
ExitPool ==
    /\ pc = "collect"
    /\ ConversionStageOver
    /\ pc' = "merge"
    /\ groups' = IF MergeRequested
                 THEN MergeGroups(DictKeys(frag_pdf_of_txt), group_level)
                 ELSE << >>
    /\ UNCHANGED <<group_level, workers, keep_fragments, txt_files, fut_state, yielded,
                   frag_pdf_of_txt, created, warned, merged_paths, merged, files,
                   dirs, parents, todo, pi, rmlog, err, result, kn, kk, attempts,
                   run, prev, wd>>

(***************************************************************************)
(* 2. merge by key.                                                        *)
(***************************************************************************)
\* writer.append(path) can read the document at path
Readable(fs, p) == p \in DOMAIN fs /\ fs[p].kind = "doc"

\* the pages writer holds after writer.append of each path, in order
RECURSIVE ReadAll(_, _)
ReadAll(fs, paths) ==
    IF paths = << >> THEN << >>
    ELSE fs[Head(paths)].pages \o ReadAll(fs, Tail(paths))

\* one iteration of the merge loop: append every member's document, then open
\* <key>.pdf and write; outcome is what the file system lets the write do
MergeGroup(outcome) ==
    /\ pc = "merge"
    /\ MergeRequested
    /\ Len(merged) < Len(groups)
    /\ LET g == groups[Len(merged) + 1]
           paths == [i \in 1..Len(g.members) |-> DictGet(frag_pdf_of_txt, g.members[i])]
           vol_pdf == VolPdf(g.key)
       IN  IF \E i \in 1..Len(paths) : ~Readable(files, paths[i])
           THEN /\ pc' = "raised"
                /\ err' = "merge_read"
                /\ UNCHANGED <<files, merged, merged_paths, created>>
           ELSE LET pages == ReadAll(files, paths)
                    rec == [key |-> g.key, path |-> vol_pdf, members |-> g.members,
                            pages |-> pages, written |-> (outcome = "ok")]
                IN  /\ merged' = Append(merged, rec)
                    /\ files' = CASE outcome = "ok" ->
                                       WriteFile(files, vol_pdf, [kind |-> "doc", pages |-> pages])
                                  [] outcome = "write_error" ->
                                       WriteFile(files, vol_pdf, PartialDoc)
                                  [] OTHER -> files
                    /\ IF outcome = "ok"
                       THEN /\ merged_paths' = Append(merged_paths, vol_pdf)
                            /\ created' = Append(created, vol_pdf)
                            /\ UNCHANGED <<pc, err>>
                       ELSE /\ pc' = "raised"
                            /\ err' = "merge_write"
                            /\ UNCHANGED <<merged_paths, created>>
    /\ UNCHANGED <<group_level, workers, keep_fragments, txt_files, fut_state, yielded,
                   frag_pdf_of_txt, warned, dirs, parents, todo, pi, rmlog, result,
                   kn, kk, groups, attempts, run, prev, wd>>

MergeOutcomes == {"ok", "open_error", "write_error"}

\* if merged_paths: the test on keep_fragments forgotten
CleanupRequestedIgnoresKeep == merged_paths # << >>

\* if not keep_fragments and merged_paths
CleanupRequested == ~keep_fragments /\ merged_paths # << >>

\* the merge stage is over (or was not asked for) and clean-up is entered
EnterPrune ==
    /\ pc = "merge"
    /\ ~MergeRequested \/ Len(merged) = Len(groups)
    /\ CleanupRequested
    /\ pc' = "unlink"
    /\ pi' = 0
    /\ parents' = {}
    /\ UNCHANGED <<group_level, workers, keep_fragments, txt_files, fut_state, yielded,
                   frag_pdf_of_txt, created, warned, merged_paths, merged, files,
                   dirs, todo, rmlog, err, result, kn, kk, groups, attempts, run,
                   prev, wd>>

\* the merge stage is over (or was not asked for), no clean-up: return created
ReturnCreated ==
    /\ pc = "merge"
    /\ ~MergeRequested \/ Len(merged) = Len(groups)
    /\ ~CleanupRequested
    /\ pc' = "done"
    /\ result' = created
    /\ UNCHANGED <<group_level, workers, keep_fragments, txt_files, fut_state, yielded,
                   frag_pdf_of_txt, created, warned, merged_paths, merged, files,
                   dirs, parents, todo, pi, rmlog, err, kn, kk, groups, attempts,
                   run, prev, wd>>

(***************************************************************************)
(* 3. _prune(list(frag_pdf_of_txt.values()), out).                         *)
(***************************************************************************)
PrunePaths == DictValues(frag_pdf_of_txt)

\* one iteration of the unlink loop
Unlink ==
    /\ pc = "unlink"
    /\ pi < Len(PrunePaths)
    /\ LET p == PrunePaths[pi + 1]
       IN  IF p \in DOMAIN files
           THEN /\ files' = RemoveFile(files, p)
                /\ parents' = parents \cup {Parent(p)}
           ELSE UNCHANGED <<files, parents>>
    /\ pi' = pi + 1
    /\ UNCHANGED <<pc, group_level, workers, keep_fragments, txt_files, fut_state,
                   yielded, frag_pdf_of_txt, created, warned, merged_paths, merged,
                   dirs, todo, rmlog, err, result, kn, kk, groups, attempts, run,
                   prev, wd>>

\* the unlink loop is over: the first rmdir loop starts on sorted(parents, ...)
UnlinkDone ==
    /\ pc = "unlink"
    /\ pi = Len(PrunePaths)
    /\ pc' = "rmdir"
    /\ todo' = parents
    /\ UNCHANGED <<group_level, workers, keep_fragments, txt_files, fut_state, yielded,
                   frag_pdf_of_txt, created, warned, merged_paths, merged, files,
                   dirs, parents, pi, rmlog, err, result, kn, kk, groups, attempts,
                   run, prev, wd>>

\* sorted without reverse=True: the shallowest directories come first
ShallowestFirst(S) == {d \in S : \A e \in S : NumParts(d) <= NumParts(e)}

\* what sorted(S, key=lambda d: len(d.parts), reverse=True) may put first: any
\* of the deepest, a set having no order of its own
DeepestFirst(S) == {d \in S : \A e \in S : NumParts(e) <= NumParts(d)}

\* one iteration of the loop over parents: folder.rmdir(), OSError swallowed
RmdirParent(folder) ==
    /\ pc = "rmdir"
    /\ folder \in DeepestFirst(todo)
    /\ LET ok == RmdirSucceeds(files, dirs, folder)
       IN  /\ dirs' = IF ok THEN dirs \ {folder} ELSE dirs
           /\ rmlog' = Append(rmlog, [dir |-> folder, ok |-> ok, loop |-> 1])
    /\ todo' = todo \ {folder}
    /\ UNCHANGED <<pc, group_level, workers, keep_fragments, txt_files, fut_state,
                   yielded, frag_pdf_of_txt, created, warned, merged_paths, merged,
                   files, parents, pi, err, result, kn, kk, groups, attempts, run,
                   prev, wd>>

\* the loop over parents is over: the second loop starts on their ancestors
RmdirDone ==
    /\ pc = "rmdir"
    /\ todo = {}
    /\ pc' = "collapse"
    /\ todo' = UNION {Ancestors(p) : p \in parents}
    /\ UNCHANGED <<group_level, workers, keep_fragments, txt_files, fut_state, yielded,
                   frag_pdf_of_txt, created, warned, merged_paths, merged, files,
                   dirs, parents, pi, rmlog, err, result, kn, kk, groups, attempts,
                   run, prev, wd>>

\* one iteration of the loop over the ancestors, not the root: parent.rmdir()
Collapse(parent) ==
    /\ pc = "collapse"
    /\ parent \in DeepestFirst(todo)
    /\ parent # OutDir
    /\ LET ok == RmdirSucceeds(files, dirs, parent)
       IN  /\ dirs' = IF ok THEN dirs \ {parent} ELSE dirs
           /\ rmlog' = Append(rmlog, [dir |-> parent, ok |-> ok, loop |-> 2])
    /\ todo' = todo \ {parent}
    /\ UNCHANGED <<pc, group_level, workers, keep_fragments, txt_files, fut_state,
                   yielded, frag_pdf_of_txt, created, warned, merged_paths, merged,
                   files, parents, pi, err, result, kn, kk, groups, attempts, run,
                   prev, wd>>

\* the loop over the ancestors reaches root (break) or runs out; _prune returns,
\* created = merged_paths, return created
PruneReturn ==
    /\ pc = "collapse"
    /\ todo = {} \/ OutDir \in DeepestFirst(todo)
    /\ pc' = "done"
    /\ created' = merged_paths
    /\ result' = merged_paths
    /\ UNCHANGED <<group_level, workers, keep_fragments, txt_files, fut_state, yielded,
                   frag_pdf_of_txt, warned, merged_paths, merged, files, dirs,
                   parents, todo, pi, rmlog, err, kn, kk, groups, attempts, run,
                   prev, wd>>

(***************************************************************************)
(* The run.                                                                *)
(***************************************************************************)
Next ==
    \/ Begin
    \/ Submit
    \/ \E txt \in Universe : Start(txt)
    \/ \E txt \in Universe, outcome \in Finished : Finish(txt, outcome)
    \/ \E txt \in Universe : Collect(txt)
    \/ ExitPool
    \/ \E outcome \in MergeOutcomes : MergeGroup(outcome)
    \/ EnterPrune
    \/ ReturnCreated
    \/ Unlink
    \/ UnlinkDone
    \/ \E folder \in todo : RmdirParent(folder)
    \/ RmdirDone
    \/ \E parent \in todo : Collapse(parent)
    \/ PruneReturn

Spec == Init /\ [][Next]_vars

\* the with block is left once as_completed is exhausted and the pool joined
LeavesPool == pc = "collect" /\ ConversionStageOver /\ pc' = "merge"

\* the steps of the calling thread inside and after the with block
MainThread ==
    \/ Begin
    \/ Submit
    \/ \E txt \in Universe : Collect(txt)
    \/ \E outcome \in MergeOutcomes : MergeGroup(outcome)
    \/ EnterPrune
    \/ ReturnCreated
    \/ Unlink
    \/ UnlinkDone
    \/ \E folder \in todo : RmdirParent(folder)
    \/ RmdirDone
    \/ \E parent \in todo : Collapse(parent)
    \/ PruneReturn

\* the steps of the pool's threads: a free thread takes the oldest queued
\* conversion, a running conversion ends by returning or raising
PoolThreads ==
    \E txt \in Universe : Start(txt) \/ \E outcome \in Finished : Finish(txt, outcome)

\* every conversion terminates, the pool threads and the calling thread keep
\* running: a step of either that stays possible is eventually taken
SpecLive == Spec /\ WF_vars(MainThread) /\ WF_pc(LeavesPool) /\ WF_vars(PoolThreads)

(***************************************************************************)
(* Two calls of convert_dmzj_txts_to_pdf on the same root and output       *)
(* directory with keep_fragments=True: the second call starts from the     *)
(* file system the first one left, with fresh locals.                      *)
(***************************************************************************)
MaxFragsTwice == 2

InitTwice ==
    /\ Init
    /\ keep_fragments
    /\ group_level \in {1, 2}
    /\ Len(txt_files) <= MaxFragsTwice

\* the first call has returned; the function is called again with the same
\* arguments (rglob finds the same txt files, the output directory is kept)
Rerun ==
    /\ pc = "done"
    /\ run = 1
    /\ prev' = [fut |-> fut_state, files |-> files]
    /\ run' = 2
    /\ pc' = "start"
    /\ fut_state' = NoFutures
    /\ attempts' = NoAttempts
    /\ yielded' = {}
    /\ frag_pdf_of_txt' = << >>
    /\ created' = << >>
    /\ warned' = << >>
    /\ groups' = << >>
    /\ merged_paths' = << >>
    /\ merged' = << >>
    /\ result' = << >>
    /\ UNCHANGED <<group_level, workers, keep_fragments, txt_files, files, dirs,
                   parents, todo, pi, rmlog, err, kn, kk, wd>>

NextTwice ==
    \/ Begin
    \/ Submit
    \/ \E txt \in Universe : Start(txt)
    \/ \E txt \in Universe, outcome \in Finished : Finish(txt, outcome)
    \/ \E txt \in Universe : Collect(txt)
    \/ ExitPool
    \/ \E outcome \in MergeOutcomes : MergeGroup(outcome)
    \/ ReturnCreated
    \/ Rerun

SpecTwice == InitTwice /\ [][NextTwice]_vars

(***************************************************************************)
(* Study of the key function and of the grouping it induces: three         *)
(* directory names, one fragment in each, grouped at depth 1 and depth 2.  *)
(***************************************************************************)
NameChars == {"a", "b", "_"}
Names == UNION {[1..n -> NameChars] : n \in 1..MaxNameLen}

KStems == <<"a", "b", "c">>
KTxt(i) == <<kn[i], <<KStems[i], ".txt">>>>
KTxts == [i \in 1..Len(KStems) |-> KTxt(i)]

KInit ==
    /\ kn \in [1..Len(KStems) -> Names]
    /\ kk = [d \in 1..2 |-> << >>]
    /\ pc = "keys"
    /\ group_level = 0
    /\ workers = 0
    /\ keep_fragments = FALSE
    /\ txt_files = << >>
    /\ files = NoFiles
    /\ dirs = {<< >>}
    /\ fut_state = NoFutures
    /\ yielded = {}
    /\ frag_pdf_of_txt = << >>
    /\ created = << >>
    /\ warned = << >>
    /\ groups = << >>
    /\ merged_paths = << >>
    /\ merged = << >>
    /\ parents = {}
    /\ todo = {}
    /\ pi = 0
    /\ rmlog = << >>
    /\ err = "none"
    /\ result = << >>
    /\ attempts = NoAttempts
    /\ run = 1
    /\ prev = NoPrev
    /\ wd = NoWrap

\* groupby(sorted(txts, key=...), key=...) at one depth
KGroup(depth) ==
    /\ pc = "keys"
    /\ kk[depth] = << >>
    /\ kk' = [kk EXCEPT ![depth] = MergeGroups(KTxts, depth)]
    /\ UNCHANGED <<pc, group_level, workers, keep_fragments, txt_files, fut_state,
                   yielded, frag_pdf_of_txt, created, warned, merged_paths, merged,
                   files, dirs, parents, todo, pi, rmlog, err, result, kn, groups,
                   attempts, run, prev, wd>>

KNext == \E depth \in 1..2 : KGroup(depth)

SpecKey == KInit /\ [][KNext]_vars

(***************************************************************************)
(* _wrap_draw: greedy wrapping and pagination of one cleaned text.  The    *)
(* call is the record wd: the arguments, the local y, the canvas (page     *)
(* number, whether a font is set on the page, the lines drawn so far) and  *)
(* the position in the two loops.  Lengths are in units; a text is a       *)
(* sequence of characters over Alphabet.                                   *)
(***************************************************************************)
MaxTextLen == 3
MaxTop == 3
MaxLh == 2
MaxWidth == 3

NL == "\n"
Alphabet == {"i", "W", " ", NL}
Texts == UNION {[1..n -> Alphabet] : n \in 0..MaxTextLen}

\* the width of one glyph: W is wide, the others narrow
CharWidth(ch) == IF ch = "W" THEN 2 ELSE 1

\* stringWidth(s, font, size): the widths of the glyphs added up
RECURSIVE Measure(_)
Measure(s) == IF s = << >> THEN 0 ELSE CharWidth(Head(s)) + Measure(Tail(s))

\* txt.split("\n"): the pieces between newlines, empty ones kept
RECURSIVE SplitNewline(_)
SplitNewline(s) ==
    IF s = << >> THEN << << >> >>
    ELSE LET rest == SplitNewline(Tail(s))
         IN  IF Head(s) = NL THEN << << >> >> \o rest
             ELSE << <<Head(s)>> \o Head(rest) >> \o Tail(rest)

\* txt.splitlines(): as split, but no empty last line after a final newline
\* and no line at all for the empty text
SplitLines(s) ==
    LET parts == SplitNewline(s)
    IN  IF parts[Len(parts)] = << >> THEN SubSeq(parts, 1, Len(parts) - 1) ELSE parts

\* txt.splitlines() or [" "]
Paragraphs(s) == IF SplitLines(s) = << >> THEN << <<" ">> >> ELSE SplitLines(s)

\* not para.strip()
IsBlank(para) == \A i \in 1..Len(para) : para[i] = " "

\* c.drawString(x0, y, s): a line on the current page at the cursor
DrawString(w, s) ==
    [w EXCEPT !.lines = Append(@, [page |-> w.page, y |-> w.y, text |-> s,
                                   para |-> w.pi, font |-> w.font])]

\* newpage(): showPage() ends the page and with it the font setting,
\* setFont sets it again, y = y0
newpage(w) == [w EXCEPT !.page = @ + 1, !.font = TRUE, !.y = w.y0]

\* y -= lh without the test that follows it
AdvanceNoBreak(w) == [w EXCEPT !.y = @ - w.lh]

\* y -= lh; if y < bottom: newpage()
Advance(w) ==
    LET v == [w EXCEPT !.y = @ - w.lh]
    IN  IF v.y < v.bottom THEN newpage(v) ELSE v

\* the buffer alone is measured, not the buffer with the next character
TooWideBuffer(w, ch) == Measure(w.buf) > w.wmax

\* stringWidth(buf + ch, font, size) > wmax
TooWide(w, ch) == Measure(w.buf \o <<ch>>) > w.wmax

\* the flush that starts the next line empty, losing ch
FlushedDropsChar(w, ch) == [Advance(DrawString(w, w.buf)) EXCEPT !.buf = << >>]

\* c.drawString(x0, y, buf); y -= lh; if y < bottom: newpage(); buf = ch
Flushed(w, ch) == [Advance(DrawString(w, w.buf)) EXCEPT !.buf = <<ch>>]

\* the last line of a paragraph followed by a second advance
AfterParagraphExtra(w) == Advance(Advance(DrawString(w, w.buf)))

\* c.drawString(x0, y, buf); y -= lh; if y < bottom: newpage()
AfterParagraph(w) == Advance(DrawString(w, w.buf))

\* the lines drawn so far for paragraph number i
LinesOf(w, i) == {j \in 1..Len(w.lines) : w.lines[j].para = i}

\* the call _wrap_draw(c, txt, font, size, lh, x0, y0, wmax, bottom) on a
\* fresh canvas, for a geometry with bottom < y0, lh > 0 and wmax > 0
WInit ==
    /\ \E txt \in Texts, y0 \in 1..MaxTop, lh \in 1..MaxLh, wmax \in 1..MaxWidth :
          \E bottom \in 0..(y0 - 1) :
              wd = [pc |-> "call", txt |-> txt, y0 |-> y0, bottom |-> bottom,
                    lh |-> lh, wmax |-> wmax, y |-> 0, font |-> FALSE, page |-> 1,
                    paras |-> << >>, pi |-> 0, ci |-> 0, buf |-> << >>,
                    from |-> 0, frompage |-> 0, lines |-> << >>, plog |-> << >>]
    /\ pc = "wrap"
    /\ group_level = 0
    /\ workers = 0
    /\ keep_fragments = FALSE
    /\ txt_files = << >>
    /\ files = NoFiles
    /\ dirs = {<< >>}
    /\ fut_state = NoFutures
    /\ yielded = {}
    /\ frag_pdf_of_txt = << >>
    /\ created = << >>
    /\ warned = << >>
    /\ groups = << >>
    /\ merged_paths = << >>
    /\ merged = << >>
    /\ parents = {}
    /\ todo = {}
    /\ pi = 0
    /\ rmlog = << >>
    /\ err = "none"
    /\ result = << >>
    /\ attempts = NoAttempts
    /\ run = 1
    /\ prev = NoPrev
    /\ kn = << >>
    /\ kk = << >>

\* _wrap_draw touches nothing but its canvas and its locals
WrapOnly ==
    /\ pc = "wrap"
    /\ UNCHANGED <<pc, group_level, workers, keep_fragments, txt_files, fut_state,
                   yielded, frag_pdf_of_txt, created, warned, merged_paths, merged,
                   files, dirs, parents, todo, pi, rmlog, err, result, kn, kk,
                   groups, attempts, run, prev>>

\* y = y0; c.setFont(font, size); the for loop is entered
WrapEnter ==
    /\ WrapOnly
    /\ wd.pc = "call"
    /\ wd' = [wd EXCEPT !.pc = "para", !.y = wd.y0, !.font = TRUE,
                        !.paras = Paragraphs(wd.txt), !.pi = 1]

\* a blank paragraph: y -= lh; if y < bottom: newpage(); continue
WrapBlank ==
    /\ WrapOnly
    /\ wd.pc = "para"
    /\ wd.pi <= Len(wd.paras)
    /\ IsBlank(wd.paras[wd.pi])
    /\ wd' = [Advance(wd) EXCEPT !.pi = @ + 1]

\* a paragraph with something to draw: buf = ""; the inner loop is entered
WrapBeginPara ==
    /\ WrapOnly
    /\ wd.pc = "para"
    /\ wd.pi <= Len(wd.paras)
    /\ ~IsBlank(wd.paras[wd.pi])
    /\ wd' = [wd EXCEPT !.pc = "char", !.buf = << >>, !.ci = 1,
                        !.from = wd.y, !.frompage = wd.page]

\* the next character does not fit: the buffer is drawn and ch starts a line
WrapBreak ==
    /\ WrapOnly
    /\ wd.pc = "char"
    /\ wd.ci <= Len(wd.paras[wd.pi])
    /\ TooWide(wd, wd.paras[wd.pi][wd.ci])
    /\ wd' = [Flushed(wd, wd.paras[wd.pi][wd.ci]) EXCEPT !.ci = @ + 1]

\* the next character fits: buf += ch
WrapAppend ==
    /\ WrapOnly
    /\ wd.pc = "char"
    /\ wd.ci <= Len(wd.paras[wd.pi])
    /\ ~TooWide(wd, wd.paras[wd.pi][wd.ci])
    /\ wd' = [wd EXCEPT !.buf = Append(@, wd.paras[wd.pi][wd.ci]), !.ci = @ + 1]

\* the paragraph is exhausted: its last line is drawn; plog keeps where the
\* cursor was before and after the paragraph and how many lines it took
WrapEndPara ==
    /\ WrapOnly
    /\ wd.pc = "char"
    /\ wd.ci > Len(wd.paras[wd.pi])
    /\ LET v == AfterParagraph(wd)
       IN  wd' = [v EXCEPT !.pc = "para", !.pi = @ + 1,
                           !.plog = Append(@, [para |-> wd.pi,
                                               k |-> Cardinality(LinesOf(v, wd.pi)),
                                               from |-> wd.from, to |-> v.y,
                                               frompage |-> wd.frompage,
                                               topage |-> v.page])]

\* the outer loop is exhausted: _wrap_draw returns
WrapReturn ==
    /\ WrapOnly
    /\ wd.pc = "para"
    /\ wd.pi > Len(wd.paras)
    /\ wd' = [wd EXCEPT !.pc = "returned"]

WNext ==
    \/ WrapEnter
    \/ WrapBlank
    \/ WrapBeginPara
    \/ WrapBreak
    \/ WrapAppend
    \/ WrapEndPara
    \/ WrapReturn

SpecWrap == WInit /\ [][WNext]_vars

(***************************************************************************)
(* Properties.                                                             *)
(***************************************************************************)
Failed == {"read_error", "write_error"}
OkTxts == {t \in DOMAIN fut_state : fut_state[t] = "ok"}
FailedTxts == {t \in DOMAIN fut_state : fut_state[t] \in Failed}

\* the main thread has left the conversion stage
PastConversion ==
    \/ pc \in {"merge", "unlink", "rmdir", "collapse", "done"}
    \/ err \in {"merge_read", "merge_write"}

\* C1: the merge stage is entered, and a merge iteration has read a fragment's
\* document, only when every submitted conversion has finished (by success or
\* by failure); what a merge iteration appended are documents of conversions
\* that ended in success.
C1_MergeAfterAllConversions ==
    /\ PastConversion =>
           \A t \in Range(txt_files) : t \in DOMAIN fut_state /\ fut_state[t] \in Finished
    /\ \A i \in 1..Len(merged) : \A t \in Range(merged[i].members) : fut_state[t] = "ok"

C1_Witness ==
    /\ Len(merged) >= 1
    /\ workers = 2
    /\ Len(txt_files) = 3
    /\ \E t \in FailedTxts : TRUE
    /\ Cardinality(OkTxts) >= 2

\* a < b for paths: the first differing component decides
RECURSIVE PathLess(_, _)
PathLess(a, b) ==
    IF b = << >> THEN FALSE
    ELSE IF a = << >> THEN TRUE
    ELSE IF Head(a) # Head(b) THEN StrLess(Head(a), Head(b))
    ELSE PathLess(Tail(a), Tail(b))

\* the members of S in sorted-path order
RECURSIVE SortedPaths(_)
SortedPaths(S) ==
    IF S = {} THEN << >>
    ELSE LET m == CHOOSE x \in S : \A y \in S \ {x} : PathLess(x, y)
         IN  <<m>> \o SortedPaths(S \ {m})

RECURSIVE DocPages(_)
DocPages(txts) ==
    IF txts = << >> THEN << >>
    ELSE DocOf(Head(txts)).pages \o DocPages(Tail(txts))

\* C2: the pages of every merged document are the pages of its member
\* fragments' documents, concatenated in sorted-path order of the fragments
\* (the groups themselves being taken in sorted-key order).
C2_MergedInSortedOrder ==
    /\ \A i \in 1..Len(merged) :
           merged[i].pages =
               DocPages(SortedPaths({t \in OkTxts :
                                        _folder_key(t, group_level) = merged[i].key}))
    /\ \A i, j \in 1..Len(merged) : i < j => StrLess(merged[i].key, merged[j].key)

\* C3: a failed conversion stays with its fragment: no exception of a
\* conversion leaves the function, every fragment is still attempted and each
\* successful one has its own document on disk when merging starts, and each
\* merge iteration appends exactly the successful fragments of its key.
C3_FailureConfined ==
    /\ pc = "raised" => err = "merge_write"
    /\ PastConversion =>
           /\ \A t \in Range(txt_files) : t \in DOMAIN fut_state /\ fut_state[t] \in Finished
           /\ Range(DictKeys(frag_pdf_of_txt)) = OkTxts
    /\ (pc = "merge" /\ merged = << >>) =>
           \A t \in OkTxts : PdfOf(t) \in DOMAIN files /\ files[PdfOf(t)] = DocOf(t)
    /\ \A i \in 1..Len(merged) :
           /\ Range(merged[i].members) =
                  {t \in OkTxts : _folder_key(t, group_level) = merged[i].key}
           /\ Len(merged[i].members) = Cardinality(Range(merged[i].members))

C3_Witness ==
    /\ pc = "done"
    /\ \E i \in 1..Len(merged) : \E t \in FailedTxts :
           /\ _folder_key(t, group_level) = merged[i].key
           /\ merged[i].written
    /\ Cardinality(OkTxts) = 2

\* C4: when the conversion stage is over there is one finished future per
\* input fragment, holding the document path or the failure; the dict
\* frag_pdf_of_txt holds exactly the successes, each mapped to its document,
\* and exactly the failures were warned about, once each.
C4_OneResultPerFragment ==
    PastConversion =>
        /\ DOMAIN fut_state = Range(txt_files)
        /\ \A t \in DOMAIN fut_state : fut_state[t] \in Finished
        /\ Range(DictKeys(frag_pdf_of_txt)) = OkTxts
        /\ Len(frag_pdf_of_txt) = Cardinality(OkTxts)
        /\ \A t \in OkTxts : DictGet(frag_pdf_of_txt, t) = PdfOf(t)
        /\ Range(warned) = FailedTxts
        /\ Len(warned) = Cardinality(FailedTxts)
        /\ Len(frag_pdf_of_txt) + Len(warned) = Len(txt_files)

C4_Witness ==
    /\ pc = "merge"
    /\ Len(txt_files) = 3
    /\ Len(warned) = 1
    /\ \E t \in FailedTxts : fut_state[t] = "read_error"
    /\ Len(frag_pdf_of_txt) = 2

\* C5: when the write of one group's merged document fails, every other
\* group is still merged and written.
C5_MergeFailureConfinedToGroup ==
    err = "merge_write" =>
        \A i \in 1..Len(groups) :
            \E j \in 1..Len(merged) :
                /\ merged[j].key = groups[i].key
                /\ \/ merged[j].written
                   \/ j = Len(merged)

\* the merge stage ran through every group without an exception
MergeComplete ==
    /\ pc \in {"merge", "unlink", "rmdir", "collapse", "done"}
    /\ group_level \in {1, 2}
    /\ Len(merged) = Len(groups)

\* C6: with group level 1 or 2 the merge stage partitions the successful
\* fragments by key: two of them were appended to the same merged document
\* exactly when their keys are equal, and there is exactly one merged
\* document per distinct key, named <key>.pdf under the output root.
C6_PartitionByKey ==
    /\ \A i \in 1..Len(merged) :
           /\ merged[i].path = OutDir \o <<merged[i].key \o <<".pdf">>>>
           /\ merged[i].members # << >>
           /\ \A t \in Range(merged[i].members) :
                  _folder_key(t, group_level) = merged[i].key
    /\ \A i, j \in 1..Len(merged) : merged[i].key = merged[j].key => i = j
    /\ MergeComplete =>
           /\ \A t, u \in OkTxts :
                  (\E i \in 1..Len(merged) :
                       t \in Range(merged[i].members) /\ u \in Range(merged[i].members))
                      <=> _folder_key(t, group_level) = _folder_key(u, group_level)
           /\ Len(merged_paths) = Cardinality({_folder_key(t, group_level) : t \in OkTxts})
           /\ Range(merged_paths) =
                  {OutDir \o <<_folder_key(t, group_level) \o <<".pdf">>>> : t \in OkTxts}

C6_Witness ==
    /\ pc = "done"
    /\ group_level = 2
    /\ Len(merged) = 2
    /\ \E i \in 1..Len(merged) : Len(merged[i].members) = 2

\* fragments i and j of the key study are in one group
KSameGroup(gs, i, j) ==
    \E g \in 1..Len(gs) :
        KTxt(i) \in Range(gs[g].members) /\ KTxt(j) \in Range(gs[g].members)

KBothGrouped == kk[1] # << >> /\ kk[2] # << >>

\* C7: the grouping at level 2 refines the grouping at level 1: two fragments
\* in one group at level 2 are in one group at level 1.
C7_Level2RefinesLevel1 ==
    KBothGrouped =>
        \A i, j \in 1..Len(KStems) :
            KSameGroup(kk[2], i, j) => KSameGroup(kk[1], i, j)

C7_Witness ==
    /\ KBothGrouped
    /\ \E i, j \in 1..Len(KStems) :
           /\ i # j
           /\ KSameGroup(kk[1], i, j)
           /\ ~KSameGroup(kk[2], i, j)
    /\ \E i, j \in 1..Len(KStems) : i # j /\ KSameGroup(kk[2], i, j)

\* C8: with a group level outside {1, 2} nothing is merged and nothing is
\* cleaned up, whatever keep_fragments is: no merged document is written, no
\* file is deleted, no rmdir is made, and the list returned is exactly one
\* document per successfully converted fragment.
C8_NoMergeOutsideRange ==
    group_level \notin {1, 2} =>
        /\ merged = << >>
        /\ merged_paths = << >>
        /\ pc \notin {"unlink", "rmdir", "collapse", "raised"}
        /\ rmlog = << >>
        /\ PastConversion =>
               /\ DOMAIN files = {PdfOf(t) : t \in OkTxts}
               /\ \A t \in OkTxts : files[PdfOf(t)] = DocOf(t)
        /\ pc = "done" =>
               /\ Range(result) = {PdfOf(t) : t \in OkTxts}
               /\ Len(result) = Cardinality(OkTxts)

C8_Witness ==
    /\ pc = "done"
    /\ group_level \in {-1, 0, 3}
    /\ ~keep_fragments
    /\ Len(result) >= 2
    /\ FailedTxts # {}

\* clean-up ran and the function returned
CleanedUp == pc = "done" /\ ~keep_fragments /\ merged_paths # << >>

\* C9: after a run in which clean-up ran, only merged documents are left under
\* the output root: every per-fragment document is gone, and so is every
\* directory below the output root that held one (at any depth) and is empty.
C9_OnlyMergedRemain ==
    CleanedUp =>
        /\ DOMAIN files \subseteq Range(merged_paths)
        /\ \A t \in OkTxts : PdfOf(t) \notin DOMAIN files
        /\ \A t \in OkTxts : \A d \in Ancestors(PdfOf(t)) :
               (d \in dirs /\ Len(d) > Len(OutDir)) => HasChild(files, dirs, d)

C9_Witness ==
    /\ CleanedUp
    /\ \E i \in 1..Len(rmlog) : rmlog[i].loop = 2 /\ rmlog[i].ok
    /\ \E i \in 1..Len(rmlog) : rmlog[i].loop = 1 /\ rmlog[i].ok
    /\ DOMAIN files # {}

\* C10: _prune never removes the output root and never removes a directory
\* that still has a child, and it tries directories deepest first.
C10_PruneSparesRoot ==
    /\ pc \notin {"start", "keys"} => OutDir \in dirs
    /\ \A f \in DOMAIN files : Parent(f) \in dirs
    /\ \A d \in dirs : d # << >> => Parent(d) \in dirs
    /\ \A i, j \in 1..Len(rmlog) :
           (i < j /\ rmlog[i].loop = rmlog[j].loop)
               => NumParts(rmlog[i].dir) >= NumParts(rmlog[j].dir)

\* C11: every discovered fragment is attempted exactly once, and at no time
\* are more conversions in progress than the pool is wide.
C11_OnceEachWithinWidth ==
    /\ Cardinality(Running) <= (IF workers = 0 THEN DEFAULT_WORKERS ELSE workers)
    /\ \A t \in DOMAIN attempts :
           /\ attempts[t] <= 1
           /\ attempts[t] = 1 <=> fut_state[t] # "pending"
    /\ pc \notin {"start", "submit", "keys", "wrap"} =>
           DOMAIN fut_state = Range(txt_files) /\ DOMAIN attempts = Range(txt_files)
    /\ PastConversion => \A t \in Range(txt_files) : attempts[t] = 1

C11_Witness ==
    /\ workers = 2
    /\ Cardinality(Running) = 2
    /\ \E t \in DOMAIN fut_state : fut_state[t] = "pending"

\* C13: the list returned is the per-fragment documents of the successful
\* conversions (in the order collected), followed by the merged documents if
\* merging ran; when clean-up ran it is the merged documents alone.  A run
\* with no fragment returns the empty list.
C13_ReturnedList ==
    pc = "done" =>
        /\ IF ~keep_fragments /\ merged_paths # << >>
           THEN result = merged_paths
           ELSE result = DictValues(frag_pdf_of_txt) \o merged_paths
        /\ Range(DictValues(frag_pdf_of_txt)) = {PdfOf(t) : t \in OkTxts}
        /\ Len(frag_pdf_of_txt) = Cardinality(OkTxts)
        /\ Len(merged_paths) = Len(merged)
        /\ \A i \in 1..Len(merged) : merged_paths[i] = merged[i].path /\ merged[i].written
        /\ group_level \notin {1, 2} => merged_paths = << >>
        /\ (group_level \in {1, 2} /\ OkTxts # {}) => merged_paths # << >>
        /\ txt_files = << >> => result = << >>

C13_Witness ==
    /\ pc = "done"
    /\ keep_fragments
    /\ Len(merged_paths) = 2
    /\ Len(result) = 5

C13_WitnessEmpty == pc = "done" /\ txt_files = << >> /\ result = << >> /\ err = "none"

\* C12: two runs on an unchanged input with keep_fragments=True, in which
\* the same conversions succeed, leave the same set of documents with the
\* same contents, whatever the pool width and the completion order.
C12_SameDocumentsTwice ==
    (run = 2 /\ pc = "done" /\ fut_state = prev.fut) => files = prev.files

\* the sequences of ss joined end to end
RECURSIVE Concat(_)
Concat(ss) == IF ss = << >> THEN << >> ELSE Head(ss) \o Concat(Tail(ss))

NotBlank(para) == \E i \in 1..Len(para) : para[i] # " "

\* the text of the lines drawn so far, in drawing order
DrawnText == Concat([j \in 1..Len(wd.lines) |-> wd.lines[j].text])

\* the characters of the non-blank paragraphs the loops have consumed so far
ConsumedText ==
    Concat(SelectSeq(SubSeq(wd.paras, 1, wd.pi - 1), NotBlank))
        \o (IF wd.pc = "char" THEN SubSeq(wd.paras[wd.pi], 1, wd.ci - 1) ELSE << >>)

Wrapping == wd.pc \in {"para", "char", "returned"}

\* C14: the lines drawn, joined in drawing order (with the line being built),
\* are the characters consumed from the non-blank paragraphs, in order; on
\* return they are the input without its newlines and blank paragraphs.
C14_NoCharacterLost ==
    Wrapping =>
        /\ DrawnText \o (IF wd.pc = "char" THEN wd.buf ELSE << >>) = ConsumedText
        /\ wd.pc = "returned" =>
               DrawnText = Concat(SelectSeq(SplitNewline(wd.txt), NotBlank))

C14_Witness ==
    /\ wd.pc = "returned"
    /\ NL \in Range(wd.txt)
    /\ Len(wd.plog) = 1
    /\ wd.plog[1].k = 2

\* C15 as stated: a paragraph drawn as k lines with no page break moves the
\* cursor by k+1 line-heights.
C15_ExtraLineAfterParagraph ==
    Wrapping =>
        \A i \in 1..Len(wd.plog) :
            wd.plog[i].frompage = wd.plog[i].topage =>
                wd.plog[i].from - wd.plog[i].to = (wd.plog[i].k + 1) * wd.lh

\* C15 amended: a paragraph drawn as k lines with no page break moves the
\* cursor by k line-heights; nothing is added after the paragraph.
C15_OneAdvancePerLine ==
    Wrapping =>
        \A i \in 1..Len(wd.plog) :
            wd.plog[i].frompage = wd.plog[i].topage =>
                wd.plog[i].from - wd.plog[i].to = wd.plog[i].k * wd.lh

C15_Witness ==
    /\ wd.pc = "returned"
    /\ \E i \in 1..Len(wd.plog) :
           /\ wd.plog[i].k = 2
           /\ wd.plog[i].frompage = wd.plog[i].topage
           /\ wd.plog[i].from - wd.plog[i].to = 2 * wd.lh

\* C16: every line is drawn with bottom <= y <= y0 on a page whose font is
\* set, and between steps the cursor is never left below the bottom margin.
C16_DrawnInsideUsableArea ==
    Wrapping =>
        /\ \A j \in 1..Len(wd.lines) :
               /\ wd.bottom <= wd.lines[j].y
               /\ wd.lines[j].y <= wd.y0
               /\ wd.lines[j].font
               /\ wd.lines[j].page <= wd.page
               /\ j > 1 => wd.lines[j - 1].page <= wd.lines[j].page
        /\ wd.bottom <= wd.y
        /\ wd.y <= wd.y0
        /\ wd.font

C16_Witness ==
    /\ wd.pc = "returned"
    /\ \E j \in 1..Len(wd.lines) : wd.lines[j].page = 2 /\ wd.lines[j].y < wd.y0

\* the characters of non-blank paragraphs that alone are wider than wmax
WideChars ==
    {<<i, j>> \in (1..Len(wd.paras)) \X (1..MaxTextLen + 1) :
        /\ NotBlank(wd.paras[i])
        /\ j <= Len(wd.paras[i])
        /\ CharWidth(wd.paras[i][j]) > wd.wmax}

\* C17: a drawn line of more than one character is at most wmax wide; a line
\* followed by another line of its paragraph would have been wider than wmax
\* with that line's first character; a character wider than wmax is alone on
\* its line, and on return every such character has its line.
C17_GreedyWithinWidth ==
    Wrapping =>
        /\ \A j \in 1..Len(wd.lines) :
               /\ Len(wd.lines[j].text) > 1 => Measure(wd.lines[j].text) <= wd.wmax
               /\ (j < Len(wd.lines) /\ wd.lines[j + 1].para = wd.lines[j].para) =>
                      /\ wd.lines[j + 1].text # << >>
                      /\ Measure(Append(wd.lines[j].text, wd.lines[j + 1].text[1])) > wd.wmax
               /\ \A i \in 1..Len(wd.lines[j].text) :
                      CharWidth(wd.lines[j].text[i]) > wd.wmax => Len(wd.lines[j].text) = 1
        /\ wd.pc = "returned" =>
               Cardinality(WideChars) =
                   Cardinality({j \in 1..Len(wd.lines) :
                                   /\ Len(wd.lines[j].text) = 1
                                   /\ CharWidth(wd.lines[j].text[1]) > wd.wmax})

C17_Witness ==
    /\ wd.pc = "returned"
    /\ wd.wmax = 2
    /\ \E j \in 1..Len(wd.lines) : Len(wd.lines[j].text) = 2

C17_WitnessWide ==
    /\ wd.pc = "returned"
    /\ wd.wmax = 1
    /\ \E j \in 1..Len(wd.lines) : wd.lines[j].text = <<"W">>

\* C18: every path of the returned list names a file that exists when the
\* function returns; clean-up deletes no merged document.
C18_ReturnedPathsExist ==
    pc = "done" => \A p \in Range(result) : p \in DOMAIN files

\* the pages of txt's document stand, in order and together, in the page
\* sequence pages
HoldsDoc(pages, txt) ==
    \E k \in 0..(Len(pages) - PagesPerDoc) :
        \A i \in 1..PagesPerDoc : pages[k + i] = <<txt, i>>

\* C19: a per-fragment document that has been deleted is held by a merged
\* document that is on disk, completely written.
C19_DeletedOnlyIfMerged ==
    \A t \in OkTxts :
        (pc \in {"unlink", "rmdir", "collapse", "done"} /\ PdfOf(t) \notin DOMAIN files)
            => \E p \in Range(merged_paths) :
                   /\ p \in DOMAIN files
                   /\ files[p].kind = "doc"
                   /\ HoldsDoc(files[p].pages, t)

\* C20: the call ends: it leaves the conversion stage, and it returns unless
\* writing a merged document raised (C5); no failed conversion keeps it
\* waiting.
C20_EventuallyReturns ==
    <>(pc = "done" \/ (pc = "raised" /\ err = "merge_write"))

C20_Witness ==
    /\ pc = "done"
    /\ workers = 1
    /\ Len(txt_files) = 3
    /\ Len(warned) = 2

====
